---- MODULE Spec2Model ----
(***************************************************************************)
(* Batch augmentation job engine: one Job of one Instance, the record      *)
(* store it sweeps, the invocations of processBatch (started by /start, by *)
(* a setTimeout callback or by the Recovery Scheduler), the cancel         *)
(* operation and the Recovery Scheduler's resumeJobs.                      *)
(*                                                                         *)
(* Every action is one stretch of code between two await points that read  *)
(* or write shared state (the jobs table, the instance row, the record     *)
(* store): Node runs such a stretch without interruption, and other        *)
(* callbacks interleave only at the awaits.                                *)
(***************************************************************************)
EXTENDS Integers, Naturals, Sequences, FiniteSets, TLC

\* ---------------------------------------------------------------- bounds
\* Number of records of the collection that match the instance filter when
\* the job is created.
NumRecords == 3
\* Number of processBatch call chains (a running invocation or its pending
\* setTimeout callback) that exist at the same time.
MaxChains == 2
\* Number of process restarts.
MaxCrashes == 1
\* Number of cancel requests.
MaxCancels == 1
\* Number of failure episodes over a run: a failed record-store call, a
\* wall-clock overrun, or a page whose combined-prompt call fails (the
\* batch retries of that page may fail again within the same episode).
MaxFaults == 1
\* Largest counter value of a job row drawn for the scheduler's rule.
MaxCount == 10
\* Length of the longest text drawn character by character.
MaxTextLen == 5
\* Number of words of the longest text drawn word by word.
MaxWords == 5
\* Largest number of removable words and of kept characters of the texts
\* drawn by their proportions.
MaxRemoved == 6
MaxKept == 3
\* Last minute of the scheduler's clock, and the longest schedule interval.
MaxNow == 5
MaxInterval == 3
\* Largest prompt of an individual call, in units of 10000 characters, and
\* the longest attempt of a call, in units of 25 seconds.
MaxSize == 3
MaxSlow == 3
\* Job log rows of one job, and ticks of one job.
MaxLogs == 4
MaxTicks == 3

\* ------------------------------------------------------ program constants
\* const BATCH_SIZE = 25: the page size, scaled down so that NumRecords
\* records span more than one page.
BATCH_SIZE == 2
\* const MAX_BATCH_RETRIES = 3
MAX_BATCH_RETRIES == 3

Procs == 1..MaxChains
Ids == 1..NumRecords

VARIABLES
  job,            \* the row of the jobs table
  instance,       \* the row of database_instances the job refers to
  store,          \* the remote collection: id -> "orig" | "clean" (the
                  \* original row, see NeededSets) | "done" (rewritten with
                  \* changed_flag = 'done', its vector as it was) |
                  \* "embedded" (rewritten, with a new vector) | "gone"
  pc,             \* per call chain: where its processBatch invocation stands
  retry,          \* per call chain: the currentRetry argument
  snap,           \* per call chain: the `job` row read at line 751, its
                  \* total being the local totalRecordsToProcess
  page,           \* per call chain: `records`, the fetched page (ids)
  counts,         \* per call chain: successCount / failCount
  ai,             \* per call chain: aiNeededRecords, the keys of
                  \* aiResponsesByIdx, the keys of embeddingsByIdx,
                  \* whether the batch insert succeeded, the
                  \* outcome of the combined call
                  \* and, as history, the number of failed combined calls
                  \* since the chain was last started with currentRetry = 0
  schedPc,        \* resumeJobs: "idle" | "resume"
  schedJob,       \* resumeJobs: the fields it reads of the selected row
  schedLog,       \* resumeJobs: its last console.log about the job
  cancelPc,       \* cancel handler: "idle" | "write"
  cancels,        \* number of cancel requests received
  crashes,        \* number of process restarts
  faults,         \* number of failure episodes so far
  now,            \* the time in minutes, one cron run of the scheduler
                  \* per minute
  filt,           \* an application of the Content Filter: its input and
                  \* its results
  fetched,        \* history: per record, the offsets of the pages it was
                  \* fetched in
  call,           \* one generative completion call: the withRetry loop, the
                  \* withTimeout race around it and what the caller gets
  db              \* the rows of one job id in the tables jobs and job_logs,
                  \* with the requests that insert and delete them

vars == << job, instance, store, pc, retry, snap, page, counts, ai,
           schedPc, schedJob, schedLog, cancelPc, cancels, crashes, faults,
           now, filt, fetched, call, db >>

procVars == << pc, retry, snap, page, counts, ai >>
schedVars == << schedPc, schedJob, schedLog >>
envVars == << cancelPc, cancels, crashes >>
\* What the job engine neither reads nor writes.
restVars == << now, filt, call, db >>
engineVars == << job, store, procVars, schedPc, schedJob, envVars, fetched >>

\* A failure episode starts: an external call fails, or a tick overruns
\* its budget.
Fault ==
  /\ faults < MaxFaults
  /\ faults' = faults + 1

NoFault == faults' = faults


\* The job row inserted by POST /start.
NewJob ==
  [ status |-> "pending", offset |-> 0, total |-> 0,
    processed |-> 0, failed |-> 0, flag |-> FALSE, details |-> "none",
    pass1_processed |-> 0, pass1_cleaned |-> 0,
    pass2_needed |-> 0, pass2_processed |-> 0 ]

NoCounts == [ succ |-> 0, fail |-> 0 ]

\* last_run of an instance that has never run (a null timestamp).
NULL == -1

\* An instance row: it exists, its query_filter matches every record, it
\* has a short prompt, enable_two_pass is false, it is active and has no
\* schedule.  aiDown: every call of callAIService for the instance's
\* generative_model_name throws (for example the API key of the model's
\* provider is not configured, lines 260-262 and 315-317).  vectorField:
\* vector_field_name is set.
PlainInstance ==
  [ exists |-> TRUE, doneFilter |-> FALSE, twoPass |-> FALSE,
    prompt |-> "small", status |-> "active", schedule_interval |-> 0,
    last_run |-> NULL, aiDown |-> FALSE, vectorField |-> FALSE ]

\* No application of the Content Filter.
NoResult ==
  [ cleanedText |-> << >>,
    stats |-> [ original |-> 0, cleaned |-> 0, removed |-> 0,
                percentRemaining |-> 0, sentencesOriginal |-> 0,
                sentencesKept |-> 0, sentencesRemoved |-> 0 ] ]

NoFilter ==
  [ phase |-> "none", text |-> << >>, languagesToRemove |-> {},
    detected |-> {}, first |-> NoResult, second |-> NoResult ]

\* No Pass 2 state: the locals aiNeededRecords and aiResponsesByIdx before
\* Pass 1 has run.
NoAi ==
  [ needed |-> {}, answered |-> {}, embedded |-> {}, inserted |-> FALSE,
    outcome |-> "none", failures |-> 0 ]

\* No completion call is being made.
NoCall ==
  [ phase |-> "none", kind |-> "none", maxRetries |-> 0, timeout |-> 0,
    attempt |-> 0, delays |-> << >>, elapsed |-> 0,
    surfaced |-> "none", attempts |-> 0, waited |-> << >> ]

\* No record has been fetched.
\* No job row, no log row, no request on them.
NoDb ==
  [ jobs |-> FALSE, jobLogs |-> 0, tick |-> "idle", del |-> "idle",
    ticks |-> 0 ]

NoFetches == [ id \in Ids |-> {} ]

\* The fields of a job row that resumeJobs reads.
SchedRow(j) ==
  [ status |-> j.status, flag |-> j.flag,
    failed |-> j.failed, total |-> j.total ]

\* ---------------------------------------------------------- record store
\* Does the record match instance.query_filter?  With doneFilter the filter
\* is `changed_flag != "done"`, otherwise it matches every record present.
Matches(st, doneFilter, id) ==
  IF doneFilter THEN st[id] \in { "orig", "clean" } ELSE st[id] # "gone"

Matching(st, doneFilter) == { id \in Ids : Matches(st, doneFilter, id) }

RECURSIVE SortedSeq(_)
SortedSeq(S) ==
  IF S = {} THEN << >>
  ELSE LET m == CHOOSE x \in S : \A y \in S : x <= y
       IN << m >> \o SortedSeq(S \ {m})

\* /v2/vectordb/entities/query with { filter, offset, limit }.
QueryPage(st, doneFilter, offset, limit) ==
  LET all == SortedSeq(Matching(st, doneFilter))
      first == offset + 1
      last == IF offset + limit < Len(all) THEN offset + limit ELSE Len(all)
  IN IF first > Len(all) THEN << >> ELSE SubSeq(all, first, last)

PageIds(p) == { page[p][i] : i \in 1..Len(page[p]) }

\* -------------------------------------------------------- Content Filter
\* A text is a sequence of one-character strings.  The modelled texts are
\* written with the letters a-z and A-Z, the space and the sentence
\* terminators; they contain no digit, underscore or accented letter.

\* COMMON_WORDS (lines 19-111): of each Set the words written with the
\* letters a-z and A-Z only, each once; no token of a modelled text equals
\* one of the others.
COMMON_WORDS ==
  [ en |-> {
    "the", "be", "to", "of", "and", "a", "in", "that", "have", "i", "it",
    "for", "not", "on", "with", "he", "as", "you", "do", "at", "this",
    "but", "his", "by", "from", "they", "we", "say", "her", "she", "or",
    "an", "will", "my", "one", "all", "would", "there", "their", "what",
    "so", "up", "out", "if", "about", "who", "get", "which", "go", "me",
    "when", "make", "can", "like", "time", "no", "just", "him", "know",
    "take", "people", "into", "year", "your", "good", "some", "could",
    "them", "see", "other", "than", "then", "now", "look", "only", "come",
    "its", "over", "think", "also", "back", "after", "use", "two", "how",
    "our", "work", "first", "well", "way", "even", "new", "want", "because",
    "any", "these", "give", "day", "most", "us", "is", "was", "are", "been",
    "has", "had", "were", "said", "did", "having", "may", "should", "am",
    "being", "shall", "might", "must", "ought", "very", "here", "where",
    "why", "whose", "whom", "man", "woman", "child", "person", "family",
    "friend", "group", "government", "company", "number", "part", "place",
    "case", "fact", "hand", "eye", "life", "world", "house", "point",
    "thing", "tell", "call", "try", "ask", "need", "feel", "become",
    "leave", "put", "mean", "keep", "let", "begin", "seem", "help", "show",
    "hear", "play", "run", "move", "live", "believe", "hold", "bring",
    "happen", "write", "sit", "stand", "lose", "pay", "meet", "include",
    "continue", "set", "learn", "change", "lead", "understand", "watch",
    "follow", "stop", "create", "speak", "read", "spend", "grow", "open",
    "walk", "win", "teach", "offer", "remember", "consider", "appear",
    "buy", "serve", "die", "send", "expect", "build", "stay", "fall", "cut",
    "reach", "kill", "raise", "pass", "sell", "decide", "return", "explain",
    "hope", "develop", "carry", "break", "receive", "agree", "support",
    "hit", "produce", "eat", "cover", "catch", "draw", "choose", "cause",
    "identify", "turn", "listen", "pick", "wear", "introduce" },
    fr |-> {
    "le", "de", "un", "et", "il", "avoir", "ne", "je", "son", "que", "se",
    "qui", "ce", "dans", "en", "du", "elle", "au", "pour", "pas", "vous",
    "par", "sur", "faire", "plus", "dire", "me", "on", "mon", "lui", "nous",
    "comme", "mais", "pouvoir", "avec", "tout", "y", "aller", "voir",
    "bien", "sans", "tu", "ou", "leur", "homme", "si", "deux", "moi",
    "vouloir", "te", "dont", "autre", "celui", "votre", "ni", "jour",
    "aussi", "savoir", "notre", "temps", "peu", "chose", "ses", "tant",
    "encore", "tous", "venir", "monde", "croire", "grand", "main",
    "premier", "car", "donc", "toujours", "avant", "quelque", "France",
    "trop", "rendre", "tenir", "prendre", "sous", "vie", "puis", "mettre",
    "entre", "moins", "fois", "contre", "parler", "donner", "quel",
    "trouver", "heure", "bon", "falloir", "demander", "sentir", "nouvelle",
    "pays", "moment", "alors", "cas", "suite", "part", "devenir", "sembler",
    "vers", "reste", "ainsi", "raison", "jeune", "femme", "cela", "enfant",
    "passer", "point", "soit", "chaque", "quelqu", "seulement", "esprit",
    "laisser", "regard", "besoin", "comprendre", "ville", "lever", "seul",
    "chez", "devant", "entendre", "fond", "famille", "place", "certain",
    "ensemble", "arriver", "depuis", "vivre", "quand", "lieu", "reprendre",
    "penser", "rentrer", "long", "mourir", "effet", "nombre", "personne",
    "aujourd", "sortir", "rester", "ouvrir", "loi", "travers", "hui",
    "mois", "porter", "attendre", "suivre", "tomber", "garder", "beau",
    "devoir", "forme", "cause", "merci", "ami", "jamais", "toute",
    "dernier", "fin", "face", "exemple", "voix", "appeler", "mieux",
    "retourner", "question", "matin", "quitter", "servir", "entrer",
    "revenir", "soir", "vue", "obtenir", "groupe", "agir", "corps", "aimer",
    "montrer", "blanc", "politique", "suivant", "jouer", "permettre",
    "assez", "mener", "fille", "changer", "continuer", "produire" },
    de |-> {
    "der", "die", "und", "in", "den", "von", "zu", "das", "mit", "sich",
    "des", "auf", "ist", "im", "dem", "nicht", "ein", "eine", "als", "auch",
    "es", "an", "werden", "aus", "er", "hat", "dass", "sie", "nach", "wird",
    "bei", "einer", "um", "am", "sind", "noch", "wie", "einem", "einen",
    "so", "zum", "war", "haben", "nur", "oder", "aber", "vor", "zur", "bis",
    "mehr", "durch", "man", "sein", "wurde", "sei", "prozent", "hatte",
    "kann", "gegen", "vom", "schon", "wenn", "habe", "seine", "mark",
    "ihre", "dann", "unter", "wir", "soll", "ich", "eines", "jahr", "zwei",
    "jahren", "diese", "dieser", "wieder", "keine", "seinem", "ob", "dir",
    "allen", "bereits", "damit", "da", "seit", "dies", "all", "doch",
    "worden", "dazu", "gehabt", "menschen", "zeit", "land", "ihm", "heute",
    "teil", "gut", "neue", "seite", "dabei", "gewesen", "dr", "ohne",
    "jedoch", "selbst", "ersten", "nun", "leben", "ende", "anderen", "ja",
    "gemacht", "tag", "zwischen", "immer", "deutscher", "ganz", "deinem",
    "stelle", "neuen", "fall", "deutsche", "drei", "werk", "dort", "staat",
    "kein", "etwas", "deutschland", "welt", "sollte", "liegt", "wohl",
    "gleichzeitig", "weitere", "weg", "geben", "tage", "macht", "kommt",
    "frage", "haus", "erst", "hand", "gleich", "stehen", "einzelnen",
    "weil", "ihnen", "mann", "frau", "musik", "gegeben", "seines", "meter",
    "allein", "gerade", "weise", "beiden", "ihrem", "wenig", "trotz",
    "gehen", "sogar", "gar", "sehen", "setzen", "kleinen", "wissen",
    "letzte", "bald", "wegen", "bleiben", "zeigen", "lassen", "meisten",
    "scheint", "finden", "neben", "zweiten", "gebracht", "kommen", "hinter",
    "denen", "entwicklung", "warum", "oft", "ebenso", "gute", "statt",
    "kunst", "darin", "deutlich", "ihres", "bekannt", "nie", "fest",
    "darauf", "gilt", "vielen", "erreichen", "tun", "aller", "einmal",
    "genannt", "erhalten", "wahr", "zwar", "besonders", "wollen", "dessen",
    "gab" },
    pt |-> {
    "o", "a", "de", "e", "do", "da", "em", "um", "para", "com", "uma", "os",
    "no", "se", "na", "por", "mais", "as", "dos", "como", "mas", "foi",
    "ao", "ele", "das", "tem", "seu", "sua", "ou", "ser", "quando", "muito",
    "nos", "eu", "pelo", "pela", "isso", "ela", "entre", "era", "depois",
    "sem", "mesmo", "aos", "ter", "seus", "quem", "nas", "me", "esse",
    "eles", "tinha", "foram", "essa", "num", "nem", "suas", "meu", "minha",
    "numa", "pelos", "elas", "havia", "seja", "qual", "tenho", "lhe",
    "deles", "essas", "esses", "pelas", "este", "fosse", "dele", "tu", "te",
    "vos", "lhes", "meus", "minhas", "teu", "tua", "teus", "tuas", "nosso",
    "nossa", "nossos", "nossas", "dela", "delas", "esta", "estes", "estas",
    "aquele", "aquela", "aqueles", "aquelas", "isto", "aquilo", "estou",
    "estamos", "estive", "esteve", "estivemos", "estiveram", "estava",
    "estavam", "estivera", "esteja", "estejamos", "estejam", "estivesse",
    "estivessem", "estiver", "estivermos", "estiverem", "hei", "havemos",
    "houve", "houvemos", "houveram", "houvera", "haja", "hajamos", "hajam",
    "houvesse", "houvessem", "houver", "houvermos", "houverem", "houverei",
    "houveremos", "houveria", "houveriam", "sou", "somos", "eram", "fui",
    "fomos", "fora", "sejamos", "sejam", "fossem", "for", "formos", "forem",
    "serei", "seremos", "seria", "seriam", "temos", "tinham", "tive",
    "teve", "tivemos", "tiveram", "tivera", "tenha", "tenhamos", "tenham",
    "tivesse", "tivessem", "tiver", "tivermos", "tiverem", "terei",
    "teremos", "teria", "teriam", "fazer", "dizer", "ir", "dar", "ver",
    "saber", "poder", "querer" } ]

\* The candidate languages, languagesToCheck of line 114.
Languages == { "en", "fr", "de", "pt" }

\* The characters of the class [.!?] of sentenceRegex (line 160).
Terminators == { ".", "!", "?" }

LowerCase ==
  << "a", "b", "c", "d", "e", "f", "g", "h", "i", "j", "k", "l", "m",
     "n", "o", "p", "q", "r", "s", "t", "u", "v", "w", "x", "y", "z" >>

UpperCase ==
  << "A", "B", "C", "D", "E", "F", "G", "H", "I", "J", "K", "L", "M",
     "N", "O", "P", "Q", "R", "S", "T", "U", "V", "W", "X", "Y", "Z" >>

\* The characters of the class [\w...] of line 116 that occur in the
\* modelled texts.
WordChars ==
  { LowerCase[i] : i \in 1..26 } \cup { UpperCase[i] : i \in 1..26 }

\* The character as is, in place of its lower case.
SameCase(c) == c

\* String.prototype.toLowerCase on one character.
toLowerCase(c) ==
  IF \E i \in 1..26 : UpperCase[i] = c
  THEN LowerCase[CHOOSE i \in 1..26 : UpperCase[i] = c]
  ELSE c

\* String.prototype.trim: the text without its leading and trailing
\* spaces.
RECURSIVE trim(_)
trim(t) ==
  IF t = << >> THEN t
  ELSE IF Head(t) = " " THEN trim(Tail(t))
  ELSE IF t[Len(t)] = " " THEN trim(SubSeq(t, 1, Len(t) - 1))
  ELSE t

\* Array.prototype.join: the texts of `parts` with `sep` between them.
RECURSIVE join(_, _)
join(parts, sep) ==
  IF parts = << >> THEN << >>
  ELSE IF Len(parts) = 1 THEN parts[1]
  ELSE parts[1] \o sep \o join(Tail(parts), sep)

\* The first position from i on whose character is (inSet) or is not
\* (~inSet) a terminator, Len(t) + 1 if there is none.
RECURSIVE Scan(_, _, _)
Scan(t, i, inSet) ==
  IF i > Len(t) THEN i
  ELSE IF (t[i] \in Terminators) = inSet THEN i
  ELSE Scan(t, i + 1, inSet)

\* text.match(/[^.!?]+[.!?]+/g) from position i on (lines 160-161): each
\* match is a longest run of non-terminators followed by a longest run of
\* terminators; terminators before the first match and a last run without
\* terminator are in no match.
RECURSIVE matchSentences(_, _)
matchSentences(t, i) ==
  IF i > Len(t) THEN << >>
  ELSE IF t[i] \in Terminators THEN matchSentences(t, i + 1)
  ELSE LET j == Scan(t, i, TRUE)
       IN IF j > Len(t) THEN << >>
          ELSE LET k == Scan(t, j, FALSE)
               IN << SubSeq(t, i, k - 1) >> \o matchSentences(t, k)

\* Lines 116: sentence.toLowerCase().match(/\b[\w...]+\b/g), the longest
\* runs of word characters from position i on, each as a string; cur is the
\* run being read.
RECURSIVE words(_, _, _)
words(t, i, cur) ==
  IF i > Len(t) THEN IF cur = "" THEN << >> ELSE << cur >>
  ELSE IF t[i] \in WordChars
  THEN words(t, i + 1, cur \o toLowerCase(t[i]))
  ELSE (IF cur = "" THEN << >> ELSE << cur >>) \o words(t, i + 1, "")

\* words.filter(word => wordSet.has(word)).length (line 127).
RECURSIVE matchCount(_, _)
matchCount(ws, wordSet) ==
  IF ws = << >> THEN 0
  ELSE (IF Head(ws) \in wordSet THEN 1 ELSE 0) + matchCount(Tail(ws), wordSet)

\* The ratio test with >= in place of >.
ReachesRatio(count, n) == 5 * count >= 2 * n

\* Line 131: matchRatio > 0.4 for matchRatio = count / n, a quotient of two
\* integers: the double nearest to count / n exceeds the double nearest to
\* 0.4 exactly when 5 * count > 2 * n.
ExceedsRatio(count, n) == 5 * count > 2 * n

\* Lines 114-137: the languages detected in a sentence.
detectSentenceLanguages(sentence) ==
  LET ws == words(sentence, 1, "")
  IN IF Len(ws) < 3 THEN {}
     ELSE { lang \in Languages :
              ExceedsRatio(matchCount(ws, COMMON_WORDS[lang]), Len(ws)) }

\* Lines 159-171: the sentences of a text.  remainingText is cut at the sum
\* of the lengths of the matches.
Sentences(text) ==
  LET matchedSentences == matchSentences(text, 1)
      lastMatchEnd == Len(join(matchedSentences, << >>))
      remainingText == trim(SubSeq(text, lastMatchEnd + 1, Len(text)))
      sentences == IF remainingText # << >>
                   THEN Append(matchedSentences, remainingText)
                   ELSE matchedSentences
  IN IF sentences = << >> THEN << text >> ELSE sentences

\* Lines 179-203: is the sentence removed?
shouldRemove(sentence, languagesToRemove) ==
  /\ Len(trim(sentence)) >= 3
  /\ detectSentenceLanguages(trim(sentence)) \cap languagesToRemove # {}

\* Lines 177-207: keptSentences.
RECURSIVE keptSentences(_, _)
keptSentences(sentences, languagesToRemove) ==
  IF sentences = << >> THEN << >>
  ELSE (IF shouldRemove(Head(sentences), languagesToRemove)
        THEN << >> ELSE << Head(sentences) >>)
       \o keptSentences(Tail(sentences), languagesToRemove)

\* Line 219: Math.round(percentRemaining * 100) / 100 for percentRemaining =
\* cleanedLength / originalLength, as a number of hundredths.  Math.round
\* rounds a half up.  For lengths below 200 the quotient times 100 is not
\* within a rounding error of 15.5, the only half that line 955 tells from
\* its neighbours.
Hundredths(cleanedLength, originalLength) ==
  (200 * cleanedLength + originalLength) \div (2 * originalLength)

\* Lines 140-226: removeLanguageSentences.  percentRemaining is in
\* hundredths.
removeLanguageSentences(text, languagesToRemove) ==
  IF trim(text) = << >>
  THEN [ cleanedText |-> << >>,
         stats |-> [ original |-> 0, cleaned |-> 0, removed |-> 0,
                     percentRemaining |-> 0, sentencesOriginal |-> 0,
                     sentencesKept |-> 0, sentencesRemoved |-> 0 ] ]
  ELSE LET sentences == Sentences(text)
           kept == keptSentences(sentences, languagesToRemove)
           cleanedText == trim(join(kept, << " " >>))
       IN [ cleanedText |-> cleanedText,
            stats |-> [ original |-> Len(text),
                        cleaned |-> Len(cleanedText),
                        removed |-> Len(text) - Len(cleanedText),
                        percentRemaining |->
                          Hundredths(Len(cleanedText), Len(text)),
                        sentencesOriginal |-> Len(sentences),
                        sentencesKept |-> Len(kept),
                        sentencesRemoved |-> Len(sentences) - Len(kept) ] ]

\* const CLEAN_THRESHOLD = 0.15, in hundredths.
CLEAN_THRESHOLD == 15

\* Line 955: needsAI = pass1Result.stats.percentRemaining > CLEAN_THRESHOLD.
needsAI(pass1Result) == pass1Result.stats.percentRemaining > CLEAN_THRESHOLD

\* --------------------------------------------------------------- helpers
\* The invocation of chain p returns: its locals are dropped.
Return(p) ==
  /\ pc' = [pc EXCEPT ![p] = "idle"]
  /\ retry' = [retry EXCEPT ![p] = 0]
  /\ snap' = [snap EXCEPT ![p] = NewJob]
  /\ page' = [page EXCEPT ![p] = << >>]
  /\ counts' = [counts EXCEPT ![p] = NoCounts]
  /\ ai' = [ai EXCEPT ![p] = NoAi]

\* setTimeout(() => processBatch(jobId, r), delay), then return.
Reschedule(p, r) ==
  /\ pc' = [pc EXCEPT ![p] = "load"]
  /\ retry' = [retry EXCEPT ![p] = r]
  /\ snap' = [snap EXCEPT ![p] = NewJob]
  /\ page' = [page EXCEPT ![p] = << >>]
  /\ counts' = [counts EXCEPT ![p] = NoCounts]
  /\ ai' = [ai EXCEPT ![p] =
               [NoAi EXCEPT !.failures = IF r = 0 THEN 0
                                         ELSE ai[p].failures]]

Goto(p, label) ==
  /\ pc' = [pc EXCEPT ![p] = label]
  /\ UNCHANGED << retry, snap, page, counts, ai >>

\* ------------------------------------------------------------------ Init
\* The job has just been created by POST /start, which has called
\* processBatch.  The instance row: its query_filter excludes the records
\* marked done or not; its prompt is a short text or null (the column is
\* nullable and POST /start does not check it); enable_two_pass is false.
Init ==
  /\ job = NewJob
  /\ instance \in { [PlainInstance EXCEPT !.doneFilter = f, !.prompt = pr] :
                    f \in BOOLEAN, pr \in { "small", "absent" } }
  /\ store = [ id \in Ids |-> "orig" ]
  /\ pc = [ p \in Procs |-> IF p = 1 THEN "load" ELSE "idle" ]
  /\ retry = [ p \in Procs |-> 0 ]
  /\ snap = [ p \in Procs |-> NewJob ]
  /\ page = [ p \in Procs |-> << >> ]
  /\ counts = [ p \in Procs |-> NoCounts ]
  /\ ai = [ p \in Procs |-> NoAi ]
  /\ schedPc = "idle"
  /\ schedJob = SchedRow(NewJob)
  /\ schedLog = "none"
  /\ cancelPc = "idle"
  /\ cancels = 0
  /\ crashes = 0
  /\ faults = 0
  /\ now = 0
  /\ filt = NoFilter
  /\ call = NoCall
  /\ db = NoDb
  /\ fetched = NoFetches

\* ---------------------------------------------------------- processBatch
\* pc = "load": processBatch has been called, or its setTimeout callback is
\* pending, and the select of line 751 has not returned yet.

\* Lines 1411-1432, the catch block: the job fails with the message of the
\* error as its details and the flag is cleared.
Catch(p, message) ==
  /\ job' = [job EXCEPT !.status = "failed", !.details = message,
                        !.flag = FALSE]
  /\ Return(p)

\* An external call of the tick throws outside the inner try blocks.
Fatal(p) ==
  /\ Fault
  /\ Catch(p, "error")

\* Lines 751-773: read the job, stop if cancelled, completed or flagged.
Load(p) ==
  /\ pc[p] = "load"
  /\ IF job.status \in { "cancelled", "completed" } \/ job.flag
     THEN Return(p)
     ELSE /\ pc' = [pc EXCEPT ![p] = "setflag"]
          /\ snap' = [snap EXCEPT ![p] = job]
          /\ UNCHANGED << retry, page, counts, ai >>
  /\ UNCHANGED << job, instance, store, schedVars, envVars, restVars, fetched,
                  faults >>

\* Lines 776-778: set the processing flag.
SetFlag(p) ==
  /\ pc[p] = "setflag"
  /\ job' = [job EXCEPT !.flag = TRUE]
  /\ Goto(p, "getinst")
  /\ UNCHANGED << instance, store, schedVars, envVars, restVars, fetched,
                  faults >>

\* Lines 781-791: a missing instance fails the job and returns.
MissingInstance(p) ==
  /\ ~instance.exists
  /\ NoFault
  /\ job' = [job EXCEPT !.status = "failed",
                        !.details = "Instance not found"]
  /\ Return(p)

\* Lines 809-881: a pending job counts its records and becomes running.
\* outcome "throw": the unfiltered count query fails (fatal);
\* outcome "nocount": the filtered count query fails (running, no total);
\* outcome "ok": both queries succeed.
\* snap[p].total is the local totalRecordsToProcess (line 806).  The count
\* is the length of one query result of at most 16384 rows, which is above
\* NumRecords.
Count(p) ==
  /\ instance.exists
  /\ snap[p].status = "pending"
  /\ \E outcome \in { "ok", "nocount", "throw" } :
       CASE outcome = "throw" -> Fatal(p)
         [] outcome = "nocount" ->
              /\ Fault
              /\ job' = [job EXCEPT !.status = "running"]
              /\ pc' = [pc EXCEPT ![p] = "fetch"]
              /\ snap' = [snap EXCEPT ![p].status = "running"]
              /\ UNCHANGED << retry, page, counts, ai >>
         [] outcome = "ok" ->
              LET n == Cardinality(Matching(store, instance.doneFilter))
              IN /\ NoFault
                 /\ job' = [job EXCEPT !.status = "running", !.total = n]
                 /\ pc' = [pc EXCEPT ![p] = "fetch"]
                 /\ snap' = [snap EXCEPT ![p].status = "running",
                                         ![p].total = n]
                 /\ UNCHANGED << retry, page, counts, ai >>

\* Lines 928-971, Pass 1 on the fetched records: the sets aiNeededRecords
\* can be.  Without two-pass every record needs Pass 2.  With it, the
\* content decides: "orig" is content of which more than CLEAN_THRESHOLD
\* remains, "clean" is content of which at most CLEAN_THRESHOLD remains,
\* and of a record already rewritten either can be the case (its text is
\* what an earlier tick kept, which may be empty).
NeededSets(st, records) ==
  LET ids == { records[i] : i \in 1..Len(records) }
  IN IF ~instance.twoPass THEN { ids }
     ELSE { S \in SUBSET ids :
              \A id \in ids : /\ st[id] = "orig" => id \in S
                              /\ st[id] = "clean" => id \notin S }

\* Lines 883-971: fetch one page at job.current_batch_offset; an empty page
\* completes the job, any other page goes through Pass 1.
FetchPage(p) ==
  \E outcome \in { "ok", "throw" } :
    IF outcome = "throw"
    THEN Fatal(p)
    ELSE LET records == QueryPage(store, instance.doneFilter,
                                  snap[p].offset, BATCH_SIZE)
         IN IF Len(records) = 0
            THEN /\ NoFault
                 /\ job' = [job EXCEPT !.status = "completed",
                                       !.details = "All records processed",
                                       !.flag = FALSE]
                 /\ Return(p)
            ELSE /\ NoFault
                 /\ job' = job
                 /\ pc' = [pc EXCEPT ![p] = "process"]
                 /\ page' = [page EXCEPT ![p] = records]
                 /\ \E needed \in NeededSets(store, records) :
                      ai' = [ai EXCEPT ![p].needed = needed]
                 /\ UNCHANGED << retry, snap, counts >>

\* The history of fetches after a step of chain p that may have fetched a
\* page (lines 883-911): the records of the page are recorded with the
\* offset of the query.
Fetched(p) ==
  IF pc'[p] = "process"
  THEN [ id \in Ids |->
           IF \E i \in 1..Len(page'[p]) : page'[p][i] = id
           THEN fetched[id] \cup { snap[p].offset }
           ELSE fetched[id] ]
  ELSE fetched

\* Lines 781-926 for the await that follows the flag update: the instance
\* is read, then a pending job is started, any other job fetches its page.
GetInstance(p) ==
  /\ pc[p] = "getinst"
  /\ \/ MissingInstance(p)
     \/ Count(p)
     \/ /\ instance.exists
        /\ snap[p].status # "pending"
        /\ FetchPage(p)
  /\ fetched' = Fetched(p)
  /\ UNCHANGED << instance, store, schedVars, envVars, restVars >>

\* Lines 883-926 on the first tick, after the job was started.
Fetch(p) ==
  /\ pc[p] = "fetch"
  /\ FetchPage(p)
  /\ fetched' = Fetched(p)
  /\ UNCHANGED << instance, store, schedVars, envVars, restVars >>

\* Line 1006: instance.prompt.replace(...) on a null prompt throws a
\* TypeError, which the catch block of lines 1411-1432 turns into a failed
\* job.
MissingPrompt(p) ==
  /\ ai[p].needed # {}
  /\ instance.prompt = "absent"
  /\ NoFault
  /\ Catch(p, "config")
  /\ store' = store

\* Line 1015: the combined prompt of the page is longer than 50000
\* characters.  The prompt template is repeated for every record, so a long
\* template makes every page exceed the limit; the record contents are
\* short.
processIndividually == instance.prompt = "large"

\* The write of the page if a record without an embedding were left out
\* of the update and counted in failCount.
WriteRecordsEmbeddedOnly(p, answered, embedded, delOk, insOk) ==
  LET written == IF instance.vectorField THEN embedded ELSE PageIds(p)
  IN /\ store' = [ id \in Ids |->
                     IF id \notin PageIds(p) THEN store[id]
                     ELSE IF insOk /\ id \in written
                     THEN IF id \in embedded THEN "embedded" ELSE "done"
                     ELSE IF delOk THEN "gone"
                     ELSE store[id] ]
     /\ counts' = [counts EXCEPT ![p] =
                     IF insOk
                     THEN [ succ |-> Cardinality(written),
                            fail |-> Len(page[p]) - Cardinality(written) ]
                     ELSE [ succ |-> 0, fail |-> Len(page[p]) ]]
     /\ ai' = [ai EXCEPT ![p].answered = answered,
                         ![p].embedded = embedded, ![p].inserted = insOk]
     /\ pc' = [pc EXCEPT ![p] = "update"]
     /\ UNCHANGED << job, retry, snap, page >>

\* The write of the page if a failed insert cleared successCount without
\* adding the page to failCount.
WriteRecordsUncounted(p, answered, embedded, delOk, insOk) ==
  /\ store' = [ id \in Ids |->
                  IF id \notin PageIds(p) THEN store[id]
                  ELSE IF insOk
                  THEN IF id \in embedded THEN "embedded" ELSE "done"
                  ELSE IF delOk THEN "gone"
                  ELSE store[id] ]
  /\ counts' = [counts EXCEPT ![p] =
                  IF insOk
                  THEN [ succ |-> Len(page[p]), fail |-> 0 ]
                  ELSE [ succ |-> 0, fail |-> 0 ]]
  /\ ai' = [ai EXCEPT ![p].answered = answered, ![p].embedded = embedded,
                      ![p].inserted = insOk]
  /\ pc' = [pc EXCEPT ![p] = "update"]
  /\ UNCHANGED << job, retry, snap, page >>

\* Lines 1238-1325: every record of the page is prepared with its Pass 2
\* response if it has one, else with its Pass 1 text, with its new vector
\* if embeddingsByIdx has one (line 1283), and counted in successCount; the
\* page's records are deleted by primary key, then the updated rows
\* carrying changed_flag = 'done' are inserted.  Both failures are caught
\* and logged; a failed insert counts the whole page as failed.
WriteRecords(p, answered, embedded, delOk, insOk) ==
  /\ store' = [ id \in Ids |->
                  IF id \notin PageIds(p) THEN store[id]
                  ELSE IF insOk
                  THEN IF id \in embedded THEN "embedded" ELSE "done"
                  ELSE IF delOk THEN "gone"
                  ELSE store[id] ]
  /\ counts' = [counts EXCEPT ![p] =
                  IF insOk
                  THEN [ succ |-> Len(page[p]), fail |-> 0 ]
                  ELSE [ succ |-> 0, fail |-> Len(page[p]) ]]
  /\ ai' = [ai EXCEPT ![p].answered = answered, ![p].embedded = embedded,
                      ![p].inserted = insOk]
  /\ pc' = [pc EXCEPT ![p] = "update"]
  /\ UNCHANGED << job, retry, snap, page >>

\* Lines 1218-1236: the wall-clock budget is exceeded.
BudgetStop(p) ==
  /\ Fault
  /\ job' = [job EXCEPT !.flag = FALSE]
  /\ Reschedule(p, 0)
  /\ store' = store

\* Lines 1152-1216: the sets embeddingsByIdx can have as keys.  Without a
\* vector field no embedding is requested; with one, the embedding call of
\* each record succeeds, or fails after its retries and is only logged.
EmbeddedSets(p) ==
  IF instance.vectorField THEN SUBSET PageIds(p) ELSE { {} }

\* Lines 1152-1325, after Pass 2 has left its responses for the records
\* `answered` (aiOk: no call failed): embeddings, the wall-clock check,
\* the write of the page.
AfterPass2(p, answered, aiOk) ==
  \/ BudgetStop(p)
  \/ \E embedded \in EmbeddedSets(p), delOk \in BOOLEAN, insOk \in BOOLEAN :
       /\ IF /\ aiOk /\ delOk /\ insOk
             /\ instance.vectorField => embedded = PageIds(p)
          THEN NoFault ELSE Fault
       /\ WriteRecords(p, answered, embedded, delOk, insOk)

\* Lines 1017-1075, individual dispatch: one call per record; a failed call
\* is logged and leaves no entry in aiResponsesByIdx.
IndividualDispatch(p) ==
  /\ ai[p].needed # {}
  /\ instance.prompt # "absent"
  /\ processIndividually
  /\ \E answered \in SUBSET ai[p].needed :
       /\ instance.aiDown => answered = {}
       /\ AfterPass2(p, answered, answered = ai[p].needed)

\* The ways the try block of the combined dispatch can throw: the call
\* fails or times out ("error"), or the response splits into fewer or more
\* parts than records sent (line 1101); a call that always throws returns
\* no response.
FailedOutcomes ==
  IF instance.aiDown THEN { "error" } ELSE { "error", "fewer", "more" }

\* The combined dispatch with a per-record partial success: a response
\* that splits into fewer parts than records sent is taken for the records
\* it answers and the page is written.
CombinedDispatchPartial(p) ==
  /\ ai[p].needed # {}
  /\ instance.prompt # "absent"
  /\ ~processIndividually
  /\ \/ /\ ~instance.aiDown
        /\ AfterPass2(p, ai[p].needed, TRUE)
     \/ /\ IF retry[p] = 0 /\ ~instance.aiDown THEN Fault ELSE NoFault
        /\ \E outcome \in FailedOutcomes \ { "fewer" } :
             ai' = [ai EXCEPT ![p].outcome = outcome,
                              ![p].failures = @ + 1]
        /\ pc' = [pc EXCEPT ![p] = "batcherr"]
        /\ UNCHANGED << job, store, retry, snap, page, counts >>
     \/ /\ ~instance.aiDown
        /\ IF retry[p] = 0 THEN Fault ELSE NoFault
        /\ \E answered \in (SUBSET ai[p].needed) \ { ai[p].needed } :
             /\ ai' = [ai EXCEPT ![p].outcome = "fewer",
                                 ![p].answered = answered]
             /\ store' = [ id \in Ids |->
                             IF id \in answered THEN "done" ELSE store[id] ]
             /\ counts' = [counts EXCEPT ![p] =
                             [ succ |-> Cardinality(answered),
                               fail |-> Len(page[p]) - Cardinality(answered) ]]
        /\ pc' = [pc EXCEPT ![p] = "update"]
        /\ UNCHANGED << job, retry, snap, page >>

\* Lines 1077-1110, combined dispatch: one call for the page.  Either the
\* response splits into one part per record sent, or the try block throws
\* into the catch block of line 1112 with outcome "error" (the call fails
\* or times out), "fewer" or "more" (the response splits into another
\* number of parts, line 1101).
CombinedDispatch(p) ==
  /\ ai[p].needed # {}
  /\ instance.prompt # "absent"
  /\ ~processIndividually
  /\ \/ /\ ~instance.aiDown
        /\ AfterPass2(p, ai[p].needed, TRUE)
     \/ /\ IF retry[p] = 0 /\ ~instance.aiDown THEN Fault ELSE NoFault
        /\ \E outcome \in FailedOutcomes :
             ai' = [ai EXCEPT ![p].outcome = outcome,
                              ![p].failures = @ + 1]
        /\ pc' = [pc EXCEPT ![p] = "batcherr"]
        /\ UNCHANGED << job, store, retry, snap, page, counts >>

\* Line 1147: no record needs Pass 2.
NoPass2(p) ==
  /\ ai[p].needed = {}
  /\ AfterPass2(p, {}, TRUE)

\* Lines 998-1325: Pass 2, embeddings, the wall-clock check and the write
\* of the page to the store.
Process(p) ==
  /\ pc[p] = "process"
  /\ \/ MissingPrompt(p)
     \/ IndividualDispatch(p)
     \/ CombinedDispatch(p)
     \/ NoPass2(p)
  /\ UNCHANGED << instance, schedVars, envVars, restVars, fetched >>

\* Lines 1112-1126: the combined-prompt call failed and retries are left.
BatchRetry(p) ==
  /\ retry[p] < MAX_BATCH_RETRIES
  /\ job' = [job EXCEPT !.flag = FALSE]
  /\ Reschedule(p, retry[p] + 1)

\* Lines 1128-1146: the retries are exhausted, the page is skipped.
BatchSkip(p) ==
  /\ retry[p] >= MAX_BATCH_RETRIES
  /\ job' = [job EXCEPT !.offset = snap[p].offset + Len(page[p]),
                        !.failed = snap[p].failed + Len(page[p]),
                        !.flag = FALSE]
  /\ Reschedule(p, 0)

\* Lines 1112-1146, the catch block of the combined dispatch.
BatchError(p) ==
  /\ pc[p] = "batcherr"
  /\ \/ BatchRetry(p)
     \/ BatchSkip(p)
  /\ UNCHANGED << instance, store, schedVars, envVars, restVars, fetched,
                  faults >>

\* Lines 1254-1265, the counts of the write loop: a record with a Pass 2
\* response counts in pass2ProcessedCount; a record without one counts in
\* pass1CleanedCount if it has a pass1Result, which every record has when
\* two-pass is enabled and none has otherwise (lines 953-958).
pass2ProcessedCount(p) == Cardinality(PageIds(p) \cap ai[p].answered)

pass1CleanedCount(p) ==
  IF instance.twoPass
  THEN Cardinality(PageIds(p) \ ai[p].answered)
  ELSE 0

\* Lines 1327-1347: write offset and counters, clear the flag.
UpdateProgress(p) ==
  /\ pc[p] = "update"
  /\ job' = [job EXCEPT
               !.offset = snap[p].offset + Len(page[p]),
               !.processed = snap[p].processed + counts[p].succ,
               !.failed = snap[p].failed + counts[p].fail,
               !.pass1_processed = snap[p].pass1_processed + Len(page[p]),
               !.pass1_cleaned = snap[p].pass1_cleaned + pass1CleanedCount(p),
               !.pass2_needed = snap[p].pass2_needed + pass2ProcessedCount(p),
               !.pass2_processed =
                    snap[p].pass2_processed + pass2ProcessedCount(p),
               !.flag = FALSE]
  /\ Goto(p, "finish")
  /\ UNCHANGED << instance, store, schedVars, envVars, restVars, fetched,
                  faults >>

\* Lines 1363-1409: complete the job or schedule the next tick.
Finish(p) ==
  /\ pc[p] = "finish"
  /\ LET newProcessed == snap[p].processed + counts[p].succ
         newFailed == snap[p].failed + counts[p].fail
         totalRecordsToProcess ==
           IF snap[p].total = 0 THEN job.total ELSE snap[p].total
     IN IF totalRecordsToProcess = 0
        THEN /\ job' = job
             /\ Reschedule(p, 0)
        ELSE IF newProcessed + newFailed >= totalRecordsToProcess
        THEN /\ job' = [job EXCEPT !.status = "completed",
                                   !.details = "Completed"]
             /\ Return(p)
        ELSE /\ job' = job
             /\ Reschedule(p, 0)
  /\ UNCHANGED << instance, store, schedVars, envVars, restVars, fetched,
                  faults >>

\* -------------------------------------------------- Recovery Scheduler
\* scheduler.js lines 59 and 64: the two tests that skip the retry of a
\* failed job.  failed_records / total_records > 0.5 on integer columns is
\* 2 * failed_records > total_records.
AllFailed(j) == j.failed >= j.total /\ j.total > 0

\* The majority test with >= in place of >.
MajorityFailedAtHalf(j) == j.total > 0 /\ 2 * j.failed >= j.total

MajorityFailed(j) == j.total > 0 /\ 2 * j.failed > j.total

\* resumeJobs lines 39-46: select the jobs in running or failed status.
SchedSelect ==
  /\ schedPc = "idle"
  /\ job.status \in { "running", "failed" }
  /\ schedPc' = "resume"
  /\ schedJob' = SchedRow(job)
  /\ schedLog' = "found"
  /\ UNCHANGED << job, instance, store, procVars, envVars, restVars, fetched,
                  faults >>

\* processBatch(job.id, 0) is called: the invocation runs up to its first
\* await (the select of line 751).  It takes the first free chain.
Spawn(p) ==
  /\ pc[p] = "idle"
  /\ \A q \in Procs : pc[q] = "idle" => p <= q
  /\ pc' = [pc EXCEPT ![p] = "load"]
  /\ retry' = [retry EXCEPT ![p] = 0]
  /\ UNCHANGED << snap, page, counts, ai >>

\* resumeJobs lines 53-82: the loop body for the job read by SchedSelect.
SchedResume ==
  /\ schedPc = "resume"
  /\ schedPc' = "idle"
  /\ schedJob' = SchedRow(NewJob)
  /\ IF schedJob.flag
     THEN /\ schedLog' = "flagged"
          /\ UNCHANGED << job, procVars >>
     ELSE IF schedJob.status = "failed" /\ AllFailed(schedJob)
     THEN /\ schedLog' = "all records failed, skipping retry"
          /\ UNCHANGED << job, procVars >>
     ELSE IF schedJob.status = "failed" /\ MajorityFailed(schedJob)
     THEN /\ schedLog' = ">50% failed, skipping retry"
          /\ UNCHANGED << job, procVars >>
     ELSE IF schedJob.status = "failed"
     THEN /\ schedLog' = "Retrying failed job"
          /\ job' = [job EXCEPT !.status = "running"]
          /\ \E p \in Procs : Spawn(p)
     ELSE /\ schedLog' = "Resuming running job"
          /\ job' = job
          /\ \E p \in Procs : Spawn(p)
  /\ UNCHANGED << instance, store, envVars, restVars, fetched,
                  faults >>

\* ----------------------------------------------------------- environment
\* jobs.js lines 100-111: the cancel handler reads the job and rejects the
\* request unless the job is running or pending.
CancelRead ==
  /\ cancelPc = "idle"
  /\ cancels < MaxCancels
  /\ cancels' = cancels + 1
  /\ cancelPc' = IF job.status \in { "running", "pending" }
                 THEN "write" ELSE "idle"
  /\ UNCHANGED << job, instance, store, procVars, schedVars, crashes,
                  faults, restVars, fetched >>

\* jobs.js lines 113-118: the cancel handler writes status = 'cancelled'.
CancelWrite ==
  /\ cancelPc = "write"
  /\ cancelPc' = "idle"
  /\ job' = [job EXCEPT !.status = "cancelled"]
  /\ UNCHANGED << instance, store, procVars, schedVars, cancels, crashes,
                  faults, restVars, fetched >>

\* instances.js: DELETE /:id removes the instance row.
DeleteInstance ==
  /\ instance.exists
  /\ instance' = [instance EXCEPT !.exists = FALSE]
  /\ UNCHANGED << job, store, procVars, schedVars, envVars, restVars, fetched,
                  faults >>

\* The process stops and restarts: every invocation, pending setTimeout
\* callback and handler is lost; the database and the store are kept.
Crash ==
  /\ crashes < MaxCrashes
  /\ crashes' = crashes + 1
  /\ pc' = [ p \in Procs |-> "idle" ]
  /\ retry' = [ p \in Procs |-> 0 ]
  /\ snap' = [ p \in Procs |-> NewJob ]
  /\ page' = [ p \in Procs |-> << >> ]
  /\ counts' = [ p \in Procs |-> NoCounts ]
  /\ ai' = [ p \in Procs |-> NoAi ]
  /\ schedPc' = "idle"
  /\ cancelPc' = "idle"
  /\ UNCHANGED << job, instance, store, schedJob, schedLog, cancels,
                  faults, restVars, fetched >>

\* ------------------------------------------------------- specifications
Tick(p) ==
  \/ Load(p)
  \/ SetFlag(p)
  \/ GetInstance(p)
  \/ Fetch(p)
  \/ Process(p)
  \/ BatchError(p)
  \/ UpdateProgress(p)
  \/ Finish(p)

Next ==
  \/ \E p \in Procs : Tick(p)
  \/ SchedSelect
  \/ SchedResume
  \/ CancelRead
  \/ CancelWrite
  \/ DeleteInstance
  \/ Crash

Spec == Init /\ [][Next]_vars

\* Every await of an invocation returns, every timer fires and the cron
\* job keeps running; cancel requests, instance deletion and restarts are
\* not forced.
FairSpec ==
  /\ Init
  /\ [][Next]_vars
  /\ \A p \in Procs : WF_vars(Tick(p))
  /\ WF_vars(SchedSelect)
  /\ WF_vars(SchedResume)

\* Two-pass processing: a job of an instance with enable_two_pass, with or
\* without a vector field, whose prompt is short (combined dispatch) or
\* long (individual dispatch), over
\* records of which Pass 1 leaves more or less than CLEAN_THRESHOLD; the
\* ticks and the Recovery Scheduler run, nothing is cancelled or restarted.
PassInit ==
  /\ job = NewJob
  /\ instance \in { [PlainInstance EXCEPT !.doneFilter = f, !.prompt = pr,
                                           !.twoPass = TRUE,
                                           !.vectorField = v] :
                    f \in BOOLEAN, pr \in { "small", "large" },
                    v \in BOOLEAN }
  /\ store \in [ Ids -> { "orig", "clean" } ]
  /\ pc = [ p \in Procs |-> IF p = 1 THEN "load" ELSE "idle" ]
  /\ retry = [ p \in Procs |-> 0 ]
  /\ snap = [ p \in Procs |-> NewJob ]
  /\ page = [ p \in Procs |-> << >> ]
  /\ counts = [ p \in Procs |-> NoCounts ]
  /\ ai = [ p \in Procs |-> NoAi ]
  /\ schedPc = "idle"
  /\ schedJob = SchedRow(NewJob)
  /\ schedLog = "none"
  /\ cancelPc = "idle"
  /\ cancels = 0
  /\ crashes = 0
  /\ faults = 0
  /\ now = 0
  /\ filt = NoFilter
  /\ call = NoCall
  /\ db = NoDb
  /\ fetched = NoFetches

PassNext ==
  \/ \E p \in Procs : Tick(p)
  \/ SchedSelect
  \/ SchedResume

PassSpec == PassInit /\ [][PassNext]_vars

\* The generative service down or up: a job of an instance whose every
\* completion call fails, or of one whose calls can succeed; the ticks and
\* the Recovery Scheduler run, every await returns, every timer fires and
\* the cron job keeps running; nothing is cancelled, deleted or restarted.
StallInit ==
  /\ job = NewJob
  /\ instance \in { [PlainInstance EXCEPT !.doneFilter = f, !.aiDown = d] :
                    f \in BOOLEAN, d \in BOOLEAN }
  /\ store = [ id \in Ids |-> "orig" ]
  /\ pc = [ p \in Procs |-> IF p = 1 THEN "load" ELSE "idle" ]
  /\ retry = [ p \in Procs |-> 0 ]
  /\ snap = [ p \in Procs |-> NewJob ]
  /\ page = [ p \in Procs |-> << >> ]
  /\ counts = [ p \in Procs |-> NoCounts ]
  /\ ai = [ p \in Procs |-> NoAi ]
  /\ schedPc = "idle"
  /\ schedJob = SchedRow(NewJob)
  /\ schedLog = "none"
  /\ cancelPc = "idle"
  /\ cancels = 0
  /\ crashes = 0
  /\ faults = 0
  /\ now = 0
  /\ filt = NoFilter
  /\ call = NoCall
  /\ db = NoDb
  /\ fetched = NoFetches

StallNext ==
  \/ \E p \in Procs : Tick(p)
  \/ SchedSelect
  \/ SchedResume

StallSpec ==
  /\ StallInit
  /\ [][StallNext]_vars
  /\ \A p \in Procs : WF_vars(Tick(p))
  /\ WF_vars(SchedSelect)
  /\ WF_vars(SchedResume)

\* The scheduler's rule on its own: a job row as resumeJobs can find it,
\* with counters up to MaxCount, and the scheduler's two steps.
RuleInit ==
  /\ \E st \in { "running", "failed" }, fl \in BOOLEAN,
        t \in 0..MaxCount :
       \E f \in 0..t : \E pr \in { 0, t - f } :
         job = [ NewJob EXCEPT
                   !.status = st, !.offset = pr + f, !.total = t,
                   !.processed = pr, !.failed = f, !.flag = fl,
                   !.details = IF st = "failed" THEN "error" ELSE "none" ]
  /\ instance = PlainInstance
  /\ store = [ id \in Ids |-> "orig" ]
  /\ pc = [ p \in Procs |-> "idle" ]
  /\ retry = [ p \in Procs |-> 0 ]
  /\ snap = [ p \in Procs |-> NewJob ]
  /\ page = [ p \in Procs |-> << >> ]
  /\ counts = [ p \in Procs |-> NoCounts ]
  /\ ai = [ p \in Procs |-> NoAi ]
  /\ schedPc = "idle"
  /\ schedJob = SchedRow(NewJob)
  /\ schedLog = "none"
  /\ cancelPc = "idle"
  /\ cancels = 0
  /\ crashes = 0
  /\ faults = 0
  /\ now = 0
  /\ filt = NoFilter
  /\ call = NoCall
  /\ db = NoDb
  /\ fetched = NoFetches

RuleNext == SchedSelect \/ SchedResume

RuleSpec == RuleInit /\ [][RuleNext]_vars

\* An earlier job of the instance has completed and nothing of the engine
\* is running.
Idle ==
  /\ job = [NewJob EXCEPT !.status = "completed", !.offset = NumRecords,
                          !.total = NumRecords, !.processed = NumRecords,
                          !.pass1_processed = NumRecords,
                          !.pass2_needed = NumRecords,
                          !.pass2_processed = NumRecords,
                          !.details = "Completed"]
  /\ store = [ id \in Ids |-> "done" ]
  /\ pc = [ p \in Procs |-> "idle" ]
  /\ retry = [ p \in Procs |-> 0 ]
  /\ snap = [ p \in Procs |-> NewJob ]
  /\ page = [ p \in Procs |-> << >> ]
  /\ counts = [ p \in Procs |-> NoCounts ]
  /\ ai = [ p \in Procs |-> NoAi ]
  /\ schedPc = "idle"
  /\ schedJob = SchedRow(NewJob)
  /\ cancelPc = "idle"
  /\ cancels = 0
  /\ crashes = 0
  /\ faults = 0
  /\ fetched = NoFetches

\* -------------------------------------------- the Recovery Scheduler's
\* trigger of scheduled instances

\* scheduler.js lines 134-175, processInstance at time t: the creation of a
\* job is commented out; last_run is stamped, and if that update fails the
\* instance is set to status 'error'.  processInstanceDisable is the
\* function if its error path also removed the schedule.
processInstanceDisable(t) ==
  \/ /\ NoFault
     /\ instance' = [instance EXCEPT !.last_run = t]
  \/ /\ Fault
     /\ instance' = [instance EXCEPT !.status = "error",
                                     !.schedule_interval = 0]

processInstance(t) ==
  \/ /\ NoFault
     /\ instance' = [instance EXCEPT !.last_run = t]
  \/ /\ Fault
     /\ instance' = [instance EXCEPT !.status = "error"]

\* scheduler.js lines 88-132, processScheduledInstances at time t.
processScheduledInstances(t) ==
  IF instance.exists /\ instance.status = "active"
     /\ instance.schedule_interval > 0
  THEN IF /\ instance.last_run # NULL
          /\ instance.last_run + instance.schedule_interval > t
       THEN /\ schedLog' = "not ready yet"
            /\ instance' = instance
            /\ NoFault
       ELSE /\ schedLog' = "Processing instance"
            /\ processInstance(t)
  ELSE /\ schedLog' = "No scheduled instances to process"
       /\ instance' = instance
       /\ NoFault

\* scheduler.js lines 18-25, the cron callback of the next minute when no
\* job is running or failed: resumeJobs returns at line 45, then
\* processScheduledInstances runs.
CronRun ==
  /\ now < MaxNow
  /\ now' = now + 1
  /\ job.status \notin { "running", "failed" }
  /\ processScheduledInstances(now + 1)
  /\ UNCHANGED << engineVars, filt, call, db >>

\* The instances the trigger is run on: active or not, with a schedule
\* interval of 0 (no schedule) to MaxInterval minutes, never run or last run
\* at minute 0.
TriggerInit ==
  /\ Idle
  /\ instance \in { [PlainInstance EXCEPT !.status = st,
                                         !.schedule_interval = n,
                                         !.last_run = lr] :
                    st \in { "active", "inactive" }, n \in 0..MaxInterval,
                    lr \in { NULL, 0 } }
  /\ schedLog = "none"
  /\ now = 0
  /\ filt = NoFilter
  /\ call = NoCall
  /\ db = NoDb

TriggerNext == CronRun

TriggerSpec == TriggerInit /\ [][TriggerNext]_vars

\* ------------------------------------- the Content Filter on its own
Alphabet == { "a", "x", " ", "." }

\* The texts of at most MaxTextLen characters of Alphabet.
CharTexts == UNION { [ 1..n -> Alphabet ] : n \in 0..MaxTextLen }

\* The texts of 1 to MaxWords words "a" or "x" separated by one space, with
\* or without a final period.
WordTexts ==
  { join([ i \in 1..n |-> << ws[i] >> ], << " " >>) \o end :
      n \in 1..MaxWords, ws \in [ 1..MaxWords -> { "a", "x" } ],
      end \in { << >>, << "." >> } }

RECURSIVE Repeat(_, _)
Repeat(t, n) == IF n = 0 THEN << >> ELSE t \o Repeat(t, n - 1)

\* The texts made of one sentence of k words "a" and of m characters "x"
\* after it: of 2k + 1 + m characters, the m last ones are kept when en is
\* removed.
ProportionTexts ==
  { Repeat(<< "a", " " >>, k) \o << "." >> \o Repeat(<< "x" >>, m) :
      k \in 3..MaxRemoved, m \in 0..MaxKept }

CatSentence ==
  << "T", "h", "e", " ", "c", "a", "t", " ", "s", "a", "t", " ", "o", "n",
     " ", "t", "h", "e", " ", "m", "a", "t", "." >>

Texts == CharTexts \cup WordTexts \cup ProportionTexts \cup { CatSentence }

\* The values of languagesToRemove (line 933).
RemovalSets == { { "en" }, { "fr" } }

FilterInit ==
  /\ Idle
  /\ instance = PlainInstance
  /\ schedLog = "none"
  /\ now = 0
  /\ filt \in { [NoFilter EXCEPT !.phase = "input", !.text = t,
                                !.languagesToRemove = r] :
                t \in Texts, r \in RemovalSets }
  /\ call = NoCall
  /\ db = NoDb

\* detectSentenceLanguages is applied to the text as one sentence.
ApplyDetect ==
  /\ filt.phase = "input"
  /\ filt' = [filt EXCEPT
                !.phase = "detected",
                !.detected = detectSentenceLanguages(filt.text)]
  /\ UNCHANGED << engineVars, instance, schedLog, faults, now, call, db >>

\* removeLanguageSentences is applied to the text (line 954).
ApplyFilter ==
  /\ filt.phase = "input"
  /\ filt' = [filt EXCEPT
                !.phase = "once",
                !.first = removeLanguageSentences(filt.text,
                                                  filt.languagesToRemove)]
  /\ UNCHANGED << engineVars, instance, schedLog, faults, now, call, db >>

\* removeLanguageSentences is applied to the cleaned text it returned.
ApplyFilterAgain ==
  /\ filt.phase = "once"
  /\ filt' = [filt EXCEPT
                !.phase = "twice",
                !.second = removeLanguageSentences(filt.first.cleanedText,
                                                   filt.languagesToRemove)]
  /\ UNCHANGED << engineVars, instance, schedLog, faults, now, call, db >>

FilterNext ==
  \/ ApplyDetect
  \/ ApplyFilter
  \/ ApplyFilterAgain

FilterSpec == FilterInit /\ [][FilterNext]_vars

\* ------------------------------- one generative completion call
\* Times are in seconds.  const MAX_RETRIES = 3, and const OPENAI_TIMEOUT =
\* 60000 ms.
MAX_RETRIES == 3
OPENAI_TIMEOUT == 60

\* The duration of one attempt, in seconds: a multiple of 25, so that no
\* attempt or sleep ends at the very instant a timer fires.
Durations == { 25 * k : k \in 0..MaxSlow }

Max(a, b) == IF a >= b THEN a ELSE b
Min(a, b) == IF a <= b THEN a ELSE b

RECURSIVE pow(_, _)
pow(b, n) == IF n = 0 THEN 1 ELSE b * pow(b, n - 1)

\* Lines 1037-1044, the timeout of an individual call for a prompt of
\* `size` times 10000 characters: Math.max(30000, Math.min(180000,
\* Math.round(contentSize * 6))) ms.
timeoutMs(size) == Max(30, Min(180, 60 * size))

\* A fixed delay of 1 s between attempts.
delayFixed(attempt) == 1

\* Line 240: delay = 1000 * Math.pow(2, attempt - 1) ms.
delay(attempt) == pow(2, attempt - 1)

\* Promise.race of withTimeout (lines 247-254), seen by the caller: the
\* first settlement is what the caller gets, with the attempts made and
\* the delays waited by then; later settlements are ignored.
Surface(c, what) ==
  IF c.surfaced = "none"
  THEN [c EXCEPT !.surfaced = what, !.attempts = c.attempt,
                 !.waited = c.delays]
  ELSE c

\* The timer of withTimeout has fired by the time c.elapsed.
Timer(c) == IF c.elapsed > c.timeout THEN Surface(c, "timeout") ELSE c

\* Lines 1047-1057 and 1082-1095: the combined call is
\* withTimeout(withRetry(op), OPENAI_TIMEOUT), an individual call is
\* withTimeout(withRetry(op, 2, 1000), timeoutMs); withRetry has two
\* parameters, so the 1000 is ignored.  The call runs up to its first
\* await.
StartCall ==
  /\ call.phase = "none"
  /\ \E kind \in { "combined", "individual" }, size \in 0..MaxSize :
       /\ kind = "combined" => size = 0
       /\ call' = [NoCall EXCEPT
                     !.phase = "attempt",
                     !.kind = kind,
                     !.maxRetries = IF kind = "combined"
                                    THEN MAX_RETRIES ELSE 2,
                     !.timeout = IF kind = "combined"
                                 THEN OPENAI_TIMEOUT ELSE timeoutMs(size),
                     !.attempt = 1]
  /\ UNCHANGED << engineVars, instance, schedLog, faults, now, filt, db >>

\* withRetry lines 234-243: one attempt of the operation settles after d
\* seconds; it returns, or it throws and the loop rethrows on the last
\* attempt, else computes the delay and sleeps.
Attempt ==
  /\ call.phase = "attempt"
  /\ \E d \in Durations, ok \in BOOLEAN :
       LET c == Timer([call EXCEPT !.elapsed = call.elapsed + d])
       IN IF ok
          THEN call' = [Surface(c, "value") EXCEPT !.phase = "returned"]
          ELSE IF c.attempt = c.maxRetries
          THEN call' = [Surface(c, "error") EXCEPT !.phase = "thrown"]
          ELSE call' = [c EXCEPT !.phase = "sleep",
                                 !.delays = Append(c.delays,
                                                   delay(c.attempt))]
  /\ UNCHANGED << engineVars, instance, schedLog, faults, now, filt, db >>

\* withRetry line 242 and the loop header: the sleep ends and the next
\* attempt starts.
Sleep ==
  /\ call.phase = "sleep"
  /\ LET c == Timer([call EXCEPT
                       !.elapsed = call.elapsed
                                   + call.delays[Len(call.delays)]])
     IN call' = [c EXCEPT !.phase = "attempt", !.attempt = c.attempt + 1]
  /\ UNCHANGED << engineVars, instance, schedLog, faults, now, filt, db >>

RetryInit ==
  /\ Idle
  /\ instance = PlainInstance
  /\ schedLog = "none"
  /\ now = 0
  /\ filt = NoFilter
  /\ call = NoCall
  /\ db = NoDb

RetryNext ==
  \/ StartCall
  \/ Attempt
  \/ Sleep

RetrySpec == RetryInit /\ [][RetryNext]_vars

\* ------------------------------------------- the tables jobs and job_logs
\* The rows of one job id.  db.jobs: the job row exists; db.jobLogs: the
\* number of job_logs rows carrying its job_id (the column is a plain text
\* column, schema.js lines 78-85: no foreign key is declared); db.tick:
\* where a processBatch invocation stands between its awaits; db.del:
\* where a DELETE /:id request stands.

\* augmentor.js lines 793-803 and 1422-1428: db.insert(jobLogs) appends one
\* row carrying the job id.
addLog(d) == [d EXCEPT !.jobLogs = d.jobLogs + 1]

\* augmentor.js lines 751-755: the invocation reads the job row and returns
\* if there is none.
LogLoad ==
  /\ db.tick = "load"
  /\ db' = [db EXCEPT !.tick = IF db.jobs THEN "run" ELSE "idle"]
  /\ UNCHANGED << engineVars, instance, schedLog, faults, now, filt, call >>

\* One await of the tick after the job was read: an addLog call, after
\* which the tick goes on, or ends and schedules the next invocation (line
\* 1409), or ends the chain (completion, lines 1381-1404, or the log row
\* of the catch block, lines 1422-1428).  The updates of the job row in
\* between match no row when the job is gone and insert none.
LogAppend ==
  /\ db.tick = "run"
  /\ db.jobLogs < MaxLogs
  /\ \E next \in { "run", "load", "idle" } :
       /\ next = "load" => db.ticks < MaxTicks
       /\ db' = [addLog(db) EXCEPT
                   !.tick = next,
                   !.ticks = IF next = "load" THEN db.ticks + 1 ELSE db.ticks]
  /\ UNCHANGED << engineVars, instance, schedLog, faults, now, filt, call >>

\* jobs.js lines 69-79: DELETE /:id reads the job row; without one it
\* answers 404 and changes nothing.
DeleteCheck ==
  /\ db.del = "idle"
  /\ db.jobs
  /\ db' = [db EXCEPT !.del = "logs"]
  /\ UNCHANGED << engineVars, instance, schedLog, faults, now, filt, call >>

\* jobs.js line 82: delete the log rows of the job.
DeleteLogs ==
  /\ db.del = "logs"
  /\ db' = [db EXCEPT !.jobLogs = 0, !.del = "job"]
  /\ UNCHANGED << engineVars, instance, schedLog, faults, now, filt, call >>

\* jobs.js lines 85-87: delete the job row and answer.
DeleteJob ==
  /\ db.del = "job"
  /\ db' = [db EXCEPT !.jobs = FALSE, !.del = "idle"]
  /\ UNCHANGED << engineVars, instance, schedLog, faults, now, filt, call >>

\* augmentor.js lines 396-431, POST /start: the job row and its 'Job
\* created' log row are inserted and processBatch is called.
LogInit ==
  /\ Idle
  /\ instance = PlainInstance
  /\ schedLog = "none"
  /\ now = 0
  /\ filt = NoFilter
  /\ call = NoCall
  /\ db = [ jobs |-> TRUE, jobLogs |-> 1, tick |-> "load", del |-> "idle",
            ticks |-> 1 ]

LogNext ==
  \/ LogLoad
  \/ LogAppend
  \/ DeleteCheck
  \/ DeleteLogs
  \/ DeleteJob

LogSpec == LogInit /\ [][LogNext]_vars

\* ---------------------------------------------------------------- claims
\* The invocation of chain p is between the is_processing_batch check of
\* line 770 and the write that clears the flag.
InTick(p) ==
  pc[p] \in { "setflag", "getinst", "fetch", "process", "batcherr", "update" }

\* The invocation of chain p has read the job and has not returned.
InFlight(p) == InTick(p) \/ pc[p] = "finish"

\* The invocation of chain p returns in this step (the process does not
\* restart).
Returns(p) ==
  /\ InFlight(p)
  /\ pc'[p] \in { "idle", "load" }
  /\ crashes' = crashes

\* C1: of the invocations of processBatch for the job that run at the same
\* time, at most one is past the is_processing_batch check.
C1_OnePastMutex == Cardinality({ p \in Procs : InTick(p) }) <= 1

\* C2: an invocation that has passed the check leaves is_processing_batch
\* false when it returns, on every exit path (unless another invocation is
\* then inside its own tick).
C2_FlagClearedOnExit ==
  [][ \A p \in Procs :
        Returns(p) =>
          (job'.flag => \E q \in Procs \ {p} : InTick(q)) ]_vars

\* C3: after a restart, a job left in running status is eventually taken
\* past the mutex check again (or leaves running status).
C3_RunningResumedAfterRestart ==
  (crashes > 0 /\ job.status = "running")
    ~> ((\E p \in Procs : InTick(p)) \/ job.status # "running")

\* C4: once total_records is known and positive,
\* processed_records + failed_records <= total_records.
C4_CountersWithinTotal ==
  job.total > 0 => job.processed + job.failed <= job.total

\* C5: processed_records + failed_records never decreases.
C5_AccountedNonDecreasing ==
  [][ job'.processed + job'.failed >= job.processed + job.failed ]_vars

\* C6: current_batch_offset never decreases.
C6_OffsetNonDecreasing == [][ job'.offset >= job.offset ]_vars

\* C7: a completed job with known total_records > 0 has
\* processed_records + failed_records = total_records.
C7_CompletedMeansAllAccounted ==
  (job.status = "completed" /\ job.total > 0)
    => job.processed + job.failed = job.total

\* C8: once the status is completed it never changes again (so completion
\* happens at most once).
C8_CompletedIsFinal ==
  [][ job.status = "completed" => job'.status = "completed" ]_vars

\* C9: once the cancel operation has written cancelled, the status stays
\* cancelled.
C9_CancelledIsFinal ==
  [][ job.status = "cancelled" => job'.status = "cancelled" ]_vars

\* This step is the loop body of resumeJobs, run on a failed job that is
\* not flagged.
SchedAtFailedJob ==
  /\ schedPc = "resume"
  /\ schedPc' = "idle"
  /\ crashes' = crashes
  /\ schedJob.status = "failed"
  /\ ~schedJob.flag

\* The loop body resets the job to running and calls processBatch.
SchedRetries ==
  /\ job'.status = "running"
  /\ \E p \in Procs : pc[p] = "idle" /\ pc'[p] = "load"

\* C10 as stated: a failed, unflagged job is retried if and only if neither
\* failed_records >= total_records nor failed_records / total_records > 0.5.
C10_RetryRuleAsStated ==
  [][ SchedAtFailedJob =>
        (SchedRetries <=>
           ~(schedJob.failed >= schedJob.total
             \/ 2 * schedJob.failed > schedJob.total)) ]_vars

\* C10 amended: a failed, unflagged job is retried if and only if
\* total_records = 0, or neither failed_records >= total_records nor
\* failed_records / total_records > 0.5.
C10_RetryRule ==
  [][ SchedAtFailedJob =>
        (SchedRetries <=>
           (schedJob.total = 0
            \/ ~(schedJob.failed >= schedJob.total
                 \/ 2 * schedJob.failed > schedJob.total))) ]_vars

\* C10 witness: the scheduler has retried a failed job with 10% of its
\* records failed.
C10_RetriedAtTenPercent ==
  /\ schedLog = "Retrying failed job"
  /\ job.status = "running"
  /\ job.total = 10
  /\ job.failed = 1
  /\ \E p \in Procs : pc[p] = "load"

\* The details a tick records when it fails the job for a configuration
\* error: the instance row is missing, or the instance has no prompt.
ConfigErrors == { "Instance not found", "config" }

\* C11: a job that failed because of a fatal configuration error (missing
\* instance, missing prompt) is never moved back to running by the
\* Recovery Scheduler.
C11_ConfigFailureNotRetried ==
  [][ ( /\ job.status = "failed"
        /\ job.details \in ConfigErrors
        /\ schedPc = "resume"
        /\ schedPc' = "idle"
        /\ crashes' = crashes )
      => job'.status = "failed" ]_vars

\* Chain p ends Pass 2 with individual dispatch in this step and goes on
\* to the progress update.
IndividualTick(p) ==
  /\ pc[p] = "process"
  /\ pc'[p] = "update"
  /\ processIndividually

\* The records of chain p's page whose individual call failed.
FailedCalls(p) == ai'[p].needed \ ai'[p].answered

\* C12: in the individual dispatch, a record whose call failed is not
\* written as done and is counted in failCount, not in successCount; the
\* records whose call succeeded are written as done whenever the page is
\* written.
C12_IndividualFailureIsolated ==
  [][ \A p \in Procs :
        IndividualTick(p) =>
          /\ \A id \in FailedCalls(p) : store'[id] # "done"
          /\ counts'[p].fail >= Cardinality(FailedCalls(p))
          /\ counts'[p].succ <= Len(page[p]) - Cardinality(FailedCalls(p))
          /\ (\E id \in PageIds(p) : store'[id] = "done")
               => \A id \in ai'[p].answered : store'[id] = "done" ]_vars

\* Chain p is in the catch block of the combined dispatch with its batch
\* retries exhausted, and this step is its own.
SkipStep(p) ==
  /\ pc[p] = "batcherr"
  /\ retry[p] >= MAX_BATCH_RETRIES
  /\ pc'[p] # "batcherr"
  /\ crashes' = crashes

\* C13: when the combined call has exhausted its batch retries, the tick
\* adds the page length to failed_records and to the offset, leaves
\* processed_records, the record store and the status unchanged, clears
\* is_processing_batch and schedules the next tick with retry counter 0.
C13_SkipAccountsPage ==
  [][ \A p \in Procs :
        SkipStep(p) =>
          /\ job'.failed = job.failed + Len(page[p])
          /\ job'.offset = job.offset + Len(page[p])
          /\ job'.processed = job.processed
          /\ store' = store
          /\ job'.status = job.status
          /\ ~job'.flag
          /\ pc'[p] = "load"
          /\ retry'[p] = 0 ]_vars

\* The outcomes of a combined call whose response does not split into one
\* part per record sent.
Mismatch == { "fewer", "more" }

\* Chain p is in the catch block of the combined dispatch because of a
\* mismatch, and this step is its own.
MismatchStep(p) ==
  /\ pc[p] = "batcherr"
  /\ ai[p].outcome \in Mismatch
  /\ pc'[p] # "batcherr"
  /\ crashes' = crashes

\* C14: when the response of a combined dispatch splits into fewer or more
\* parts than records sent, the tick enters the batch-level catch block
\* with nothing written or counted, and leaves it by the retry or the skip
\* path, again with no record written and processed_records unchanged.
C14_MismatchIsBatchFailure ==
  [][ \A p \in Procs :
        /\ (pc[p] = "process" /\ ai'[p].outcome \in Mismatch) =>
              /\ pc'[p] = "batcherr"
              /\ store' = store
              /\ counts'[p] = NoCounts
              /\ job'.processed = job.processed
        /\ MismatchStep(p) =>
              /\ pc'[p] = "load"
              /\ retry'[p] = IF retry[p] < MAX_BATCH_RETRIES
                             THEN retry[p] + 1 ELSE 0
              /\ store' = store
              /\ job'.processed = job.processed ]_vars

\* C14 witness: a combined response with fewer parts than records has put
\* a tick in the catch block on its last attempt, with the page unwritten.
C14_MismatchCaught ==
  \E p \in Procs :
    /\ pc[p] = "batcherr"
    /\ ai[p].outcome = "fewer"
    /\ retry[p] = MAX_BATCH_RETRIES
    /\ \A id \in PageIds(p) : store[id] = "orig"

\* The Content Filter has been applied to a text of positive length.
Filtered == filt.phase \in { "once", "twice" } /\ Len(filt.text) > 0

\* C15: with original_len > 0, Pass 2 is skipped if and only if
\* cleaned_len / original_len <= 0.15, the exact ratio (that is,
\* 20 * cleaned_len <= 3 * original_len).
C15_SkipAtExactRatio ==
  Filtered =>
    (~needsAI(filt.first)
       <=> 20 * Len(filt.first.cleanedText) <= 3 * Len(filt.text))

\* The number of words of the sequence ws that are in the common-word set
\* of language lang.
CommonIn(ws, lang) ==
  Cardinality({ i \in 1..Len(ws) : ws[i] \in COMMON_WORDS[lang] })

\* C16: Language Attribution returns no language for a sentence of fewer
\* than 3 tokens; for a sentence of at least 3 tokens it attributes a
\* language if and only if (tokens in its common-word set) / (tokens) is
\* strictly greater than 0.40.
C16_AttributionAboveFortyPercent ==
  filt.phase = "detected" =>
    LET ws == words(filt.text, 1, "")
    IN /\ Len(ws) < 3 => filt.detected = {}
       /\ Len(ws) >= 3 =>
            \A lang \in Languages :
              lang \in filt.detected
                <=> 5 * CommonIn(ws, lang) > 2 * Len(ws)

\* C16 witness: a sentence of 5 tokens, 2 of them common English words
\* (ratio exactly 0.40), has been attributed no language.
C16_ExactlyFortyPercent ==
  /\ filt.phase = "detected"
  /\ Len(words(filt.text, 1, "")) = 5
  /\ CommonIn(words(filt.text, 1, ""), "en") = 2
  /\ filt.detected = {}

\* The sentence "The cat sat on the mat." is the input and en is removed.
CatCase == filt.text = CatSentence /\ filt.languagesToRemove = { "en" }

\* C17 as stated: all 6 tokens of "The cat sat on the mat." are in the
\* English common-word set, en is attributed and the sentence is removed.
C17_CatSentenceAllCommon ==
  CatCase =>
    /\ filt.phase = "detected" =>
         /\ Len(words(filt.text, 1, "")) = 6
         /\ CommonIn(words(filt.text, 1, ""), "en") = 6
         /\ "en" \in filt.detected
    /\ filt.phase = "once" =>
         /\ filt.first.cleanedText = << >>
         /\ filt.first.stats.sentencesRemoved = 1

\* C17 amended: 3 of the 6 tokens of "The cat sat on the mat." (the, on,
\* the) are in the English common-word set, en and only en is attributed,
\* and with removal set {en} the Content Filter removes the sentence: the
\* cleaned text is empty and sentences_removed = 1.
C17_CatSentenceRemoved ==
  CatCase =>
    /\ filt.phase = "detected" =>
         /\ Len(words(filt.text, 1, "")) = 6
         /\ CommonIn(words(filt.text, 1, ""), "en") = 3
         /\ filt.detected = { "en" }
    /\ filt.phase = "once" =>
         /\ filt.first.cleanedText = << >>
         /\ filt.first.stats.sentencesRemoved = 1

\* C17 witness: the Content Filter has been applied to the sentence with
\* removal set {en} and has left nothing.
C17_CatSentenceFiltered ==
  /\ CatCase
  /\ filt.phase = "once"
  /\ filt.first.cleanedText = << >>
  /\ filt.first.stats.sentencesRemoved = 1

\* C18: the Content Filter is idempotent: applied to the cleaned text it
\* produced, it returns that text unchanged.
C18_FilterIdempotent ==
  filt.phase = "twice" => filt.second.cleanedText = filt.first.cleanedText

\* The instance is due at time t: active, scheduled, and never run or last
\* run at least one interval ago.
Due(t) ==
  /\ instance.status = "active"
  /\ instance.schedule_interval > 0
  /\ \/ instance.last_run = NULL
     \/ instance.last_run + instance.schedule_interval <= t

\* C19: a Recovery Scheduler run starts a new job for a due instance and
\* stamps its last_run; for an instance that is not due it does neither.
C19_DueInstanceStartsJob ==
  [][ now' = now + 1 =>
        IF Due(now')
        THEN /\ job'.status \in { "pending", "running" }
             /\ instance'.last_run = now'
        ELSE /\ job' = job
             /\ instance'.last_run = instance.last_run ]_vars

\* The cancel handler writes in this step.
CancelWrites ==
  /\ cancelPc = "write"
  /\ cancelPc' = "idle"
  /\ crashes' = crashes

\* C20: the cancel operation changes the status only of a job that is
\* running or pending when it writes; a job that is completed, failed or
\* cancelled by then is left unchanged.
C20_CancelOnlyRunningOrPending ==
  [][ (CancelWrites /\ job.status \notin { "running", "pending" })
        => job' = job ]_vars

\* The changes of status the lifecycle allows.
LifecycleEdges ==
  { << "pending", "running" >>, << "running", "completed" >>,
    << "running", "failed" >>, << "running", "cancelled" >>,
    << "failed", "running" >> }

\* C21: every change of a job's status, by a tick, by the Recovery
\* Scheduler or by the cancel operation, is one of the lifecycle edges.
C21_OnlyLifecycleEdges ==
  [][ job'.status # job.status
        => << job.status, job'.status >> \in LifecycleEdges ]_vars

\* This step is a step of the invocation of chain p (not its start by the
\* scheduler, not a restart).
ChainStep(p) ==
  /\ pc[p] # "idle"
  /\ pc'[p] # pc[p]
  /\ crashes' = crashes

\* This step of chain p records a page outcome: the progress update after
\* the page was written, or the skip of the page.
RecordsOutcome(p) ==
  \/ pc[p] = "update"
  \/ pc[p] = "batcherr" /\ retry[p] >= MAX_BATCH_RETRIES

\* C22: the step of a tick that records a page outcome increases the offset
\* by exactly the number of records fetched in the page; every other step
\* of a tick, whatever way the tick ends, leaves offset, processed_records
\* and failed_records unchanged.
C22_OffsetAdvancesByPage ==
  [][ \A p \in Procs :
        ChainStep(p) =>
          IF RecordsOutcome(p)
          THEN job'.offset = job.offset + Len(page[p])
          ELSE /\ job'.offset = job.offset
               /\ job'.processed = job.processed
               /\ job'.failed = job.failed ]_vars

\* This step ends a tick of chain p that has recorded a page outcome: the
\* completion check after the progress update, or the skip of the page.
EndsOutcomeTick(p) ==
  /\ ChainStep(p)
  /\ \/ pc[p] = "finish"
     \/ pc[p] = "batcherr" /\ retry[p] >= MAX_BATCH_RETRIES

\* C23: with total_records known and positive, at the end of a tick that
\* has recorded a page outcome for a running job (no other invocation
\* existing), processed_records + failed_records >= total_records implies
\* that the status is completed.
C23_AccountedMeansCompleted ==
  [][ \A p \in Procs :
        ( /\ EndsOutcomeTick(p)
          /\ \A q \in Procs \ {p} : pc[q] = "idle"
          /\ job.status = "running"
          /\ job'.total > 0
          /\ job'.processed + job'.failed >= job'.total )
        => job'.status = "completed" ]_vars

\* C24: in a completed job, every record that matched the row filter when
\* the job started (every record of the collection) has been fetched in
\* exactly one page: at one offset, not at none and not at two.
C24_EachRecordInOnePage ==
  job.status = "completed"
    => \A id \in Ids : Cardinality(fetched[id]) = 1

\* The attempts a call of this kind makes before withRetry rethrows.
Budget(kind) == IF kind = "combined" THEN 3 ELSE 2

\* C27 as stated: when the failure of a completion call, combined or
\* individual, is surfaced to the caller by withRetry, the call has been
\* attempted 3 times, with waits of 1 s and 2 s.
C27_ThreeAttempts ==
  call.surfaced = "error"
    => call.attempts = 3 /\ call.waited = << 1, 2 >>

\* C27 amended: the combined call is attempted up to 3 times (waits of 1 s,
\* then 2 s), an individual call up to 2 times (a wait of 1 s); the failure
\* surfaced by withRetry comes after exactly that many failed attempts, and
\* whatever is surfaced comes after at most that many.
C27_RetryBudget ==
  /\ call.surfaced # "none" =>
       /\ call.attempts <= Budget(call.kind)
       /\ \A i \in 1..Len(call.waited) : call.waited[i] = pow(2, i - 1)
  /\ call.surfaced = "error" =>
       /\ call.attempts = Budget(call.kind)
       /\ Len(call.waited) = Budget(call.kind) - 1

\* C27 witness: an individual call has failed twice and its failure has
\* been surfaced after one wait of 1 s.
C27_IndividualGivesUp ==
  /\ call.kind = "individual"
  /\ call.surfaced = "error"
  /\ call.attempts = 2
  /\ call.waited = << 1 >>

\* C26: when a tick skips a page, the combined call of the page has been
\* attempted, and has failed, at most 3 times at batch level.
C26_ThreeBatchAttempts ==
  [][ \A p \in Procs : SkipStep(p) => ai[p].failures <= 3 ]_vars

\* C25: when every combined call of the instance fails, a running job
\* whose offset is before the end of the collection eventually has a larger
\* offset: the page at the offset is eventually skipped.
C25_FailingPageEventuallySkipped ==
  \A o \in 0..(NumRecords - 1) :
    (instance.aiDown /\ job.status = "running" /\ job.offset = o)
      ~> (job.offset > o)

\* Chain p writes its page in this step.
WriteStep(p) ==
  /\ pc[p] = "process"
  /\ pc'[p] = "update"

\* The records of chain p's page whose embedding call failed.
FailedEmbeddings(p) ==
  IF instance.vectorField THEN PageIds(p) \ ai'[p].embedded ELSE {}

\* The batch insert of chain p's page succeeded.
Inserted(p) == ai'[p].inserted

\* C28: with a vector field declared, a record whose embedding call failed
\* is, whenever the page is inserted, written with the done marker and
\* without a new vector, and the whole page is counted in successCount,
\* none of it in failCount; the progress update then adds the page to
\* processed_records and nothing to failed_records.
C28_EmbeddingFailureTolerated ==
  [][ \A p \in Procs :
        /\ (WriteStep(p) /\ FailedEmbeddings(p) # {} /\ Inserted(p)) =>
              /\ \A id \in FailedEmbeddings(p) : store'[id] = "done"
              /\ counts'[p] = [ succ |-> Len(page[p]), fail |-> 0 ]
        /\ ( /\ pc[p] = "update" /\ pc'[p] = "finish"
             /\ instance.vectorField
             /\ ai[p].embedded # PageIds(p)
             /\ ai[p].inserted ) =>
              /\ job'.processed = snap[p].processed + Len(page[p])
              /\ job'.failed = snap[p].failed ]_vars

\* C28 witness: a page has been written of which one record got its new
\* vector and the other, whose embedding call failed, did not, and both are
\* counted as succeeded.
C28_WrittenWithoutVector ==
  \E p \in Procs :
    /\ pc[p] = "update"
    /\ instance.vectorField
    /\ \E id \in PageIds(p) : id \notin ai[p].embedded /\ store[id] = "done"
    /\ \E id \in PageIds(p) : id \in ai[p].embedded /\ store[id] = "embedded"
    /\ counts[p] = [ succ |-> 2, fail |-> 0 ]

\* Chain p finds the wall-clock budget exceeded in this step.
BudgetStep(p) ==
  /\ pc[p] = "process"
  /\ pc'[p] = "load"
  /\ crashes' = crashes

\* C29: the tick that finds the wall-clock budget exceeded leaves the record
\* store as it is, clears is_processing_batch, schedules one next tick with
\* retry counter 0, and persists its progress: the job row does not keep the
\* offset the tick read with the page query still returning the same page.
C29_BudgetStopPersistsProgress ==
  [][ \A p \in Procs :
        BudgetStep(p) =>
          /\ store' = store
          /\ ~job'.flag
          /\ retry'[p] = 0
          /\ ~ ( /\ job'.offset = snap[p].offset
                 /\ QueryPage(store', instance.doneFilter, job'.offset,
                              BATCH_SIZE) = page[p] ) ]_vars

\* A record-count query of chain p, on the first tick of the job it read as
\* pending, fails in this step.
CountFails(p) ==
  /\ ChainStep(p)
  /\ pc[p] = "getinst"
  /\ instance.exists
  /\ snap[p].status = "pending"
  /\ faults' # faults

\* C30: when a record-count query fails on the first tick of a pending job,
\* the job becomes running, total_records keeps its value, and the tick
\* goes on to the page query.
C30_CountFailureNotFatal ==
  [][ \A p \in Procs :
        CountFails(p) =>
          /\ job'.status = "running"
          /\ job'.total = job.total
          /\ pc'[p] = "fetch" ]_vars

\* C31: a job whose count could not be resolved when it started has its
\* total_records resolved by a later tick before it completes: a completed
\* job has a known total (the collection holds matching records when the
\* job starts).
C31_TotalKnownBeforeCompletion ==
  job.status = "completed" => job.total > 0

\* C32: when the batch insert of chain p's page has failed, the write to
\* the job row that follows sets the status to failed and clears
\* is_processing_batch.
C32_WriteFailureFailsJob ==
  [][ \A p \in Procs :
        ( /\ ChainStep(p)
          /\ pc[p] = "update"
          /\ ~ai[p].inserted ) =>
          /\ job'.status = "failed"
          /\ ~job'.flag ]_vars

\* C33 as stated: no step of the engine changes a field of the instance
\* other than last_run.
C33_OnlyLastRunWritten ==
  [][ [instance' EXCEPT !.last_run = instance.last_run] = instance ]_vars

\* C33: a step of the engine changes no field of the instance other than
\* last_run and status, and it changes status only to 'error', in a step
\* that does not stamp last_run.
C33_OnlyLastRunOrError ==
  [][ /\ [instance' EXCEPT !.last_run = instance.last_run,
                           !.status = instance.status] = instance
      /\ instance'.status # instance.status =>
           /\ instance'.status = "error"
           /\ instance'.last_run = instance.last_run ]_vars

\* C33 witness: a run of the trigger has failed to stamp last_run of a due
\* instance and has set its status to 'error'.
C33_InstanceSetToError ==
  /\ instance.status = "error"
  /\ instance.schedule_interval > 0
  /\ schedLog = "Processing instance"
  /\ faults = 1

\* C34: every job_logs row refers to an existing job: there is no log row
\* of the job id when its job row is gone.
C34_LogsHaveJob ==
  db.jobLogs > 0 => db.jobs

\* C35: the progress update of a tick adds to each two-pass counter the
\* number it names: to pass1_processed the records of the page, to
\* pass1_cleaned the records for which Pass 2 was skipped, to pass2_needed
\* the records escalated to Pass 2, to pass2_processed the records whose
\* Pass 2 call succeeded.
C35_PassCountersNamed ==
  [][ \A p \in Procs :
        (ChainStep(p) /\ pc[p] = "update") =>
          /\ job'.pass1_processed =
               snap[p].pass1_processed + Len(page[p])
          /\ job'.pass1_cleaned =
               snap[p].pass1_cleaned
               + Cardinality(PageIds(p) \ ai[p].needed)
          /\ job'.pass2_needed =
               snap[p].pass2_needed + Cardinality(ai[p].needed)
          /\ job'.pass2_processed =
               snap[p].pass2_processed + Cardinality(ai[p].answered) ]_vars

\* At most one tick of the job is in flight.
NoOverlap == \A p, q \in Procs : InFlight(p) /\ InFlight(q) => p = q

\* The executions in which no two ticks of the job overlap: an invocation
\* that would read the job row while another tick is in flight does so
\* only after that tick has returned.
SoloNext ==
  \/ \E p \in Procs : Tick(p) /\ NoOverlap'
  \/ SchedSelect
  \/ SchedResume
  \/ CancelRead
  \/ CancelWrite
  \/ DeleteInstance
  \/ Crash

SoloSpec == Init /\ [][SoloNext]_vars

\* C36: while no two ticks of the job overlap, processed_records +
\* failed_records = current_batch_offset.
C36_CountersMatchOffset ==
  job.processed + job.failed = job.offset

\* C36 witness: without overlap, one page has been written and counted as
\* processed and the other has been skipped or has failed to be inserted
\* and is counted as failed.
C36_BothCountersAdvanced ==
  /\ job.processed > 0
  /\ job.failed > 0
  /\ job.offset = NumRecords

\* C37: after the write of a page by a tick that does not crash, every
\* record of the page is present in the store, as the original row or as
\* the updated row.
C37_NoRecordLost ==
  [][ \A p \in Procs :
        WriteStep(p) => \A id \in PageIds(p) : store'[id] # "gone" ]_vars

\* C38: the status of every job eventually never changes again; no job
\* alternates between failed and running forever.
C38_StatusSettles ==
  \E s \in { "pending", "running", "completed", "cancelled", "failed" } :
    <>[](job.status = s)

\* C39: the cleaned text the Content Filter returns is never longer than
\* its input: the removed-character count is not negative and the
\* remaining fraction is at most 1.
C39_CleanedNotLonger ==
  filt.phase \in { "once", "twice" } =>
    /\ filt.first.stats.cleaned <= filt.first.stats.original
    /\ filt.first.stats.removed >= 0
    /\ filt.first.stats.percentRemaining <= 100

====
